---- MODULE Spec2Model ----
(***************************************************************************)
(* Model of lab6.py: the `logged` decorator and XMLFileHandler, a          *)
(* validated accessor offering read / write / append on one XML file.      *)
(*                                                                         *)
(* Python values are encoded as follows.  A str is a TLA+ string.  Values  *)
(* that are not str are strings beginning with "~": None is "~None", the   *)
(* int 5 is "~int:5".  An Element is a record [tag, attrib, text,          *)
(* children]; attrib is the ordered sequence of <<key, value>> pairs.  An  *)
(* object that is not an Element is the record NotAnElement.  The tail of  *)
(* an element is not modelled: no operation of XMLFileHandler reads it.    *)
(*                                                                         *)
(* A file is [kind, perm, content].  The content of a well-formed XML file *)
(* is its markup, [decl, root], root being the tree of start tags with     *)
(* their escaped attribute values and escaped character data (cdata); any  *)
(* other content is [bytes |-> ...].                                       *)
(***************************************************************************)
EXTENDS Integers, Sequences, FiniteSets, TLC

VARIABLES fs,             \* the file system: path -> file
          handlers,       \* filepath of every XMLFileHandler instance made
          ctor,           \* what the latest XMLFileHandler(path) did
          pc,             \* position of the call in progress inside wrapper
          cur,            \* the call in progress: [op, self, arg]
          pending,        \* what func(*args) did, before wrapper's except/finally
          last,           \* what the latest finished call gave its caller
          loggerHandlers, \* logging.getLogger(name).handlers, per name
          openSinks,      \* log handlers created and not yet closed
          callLog,        \* lines the latest call wrote to its log sink
          written         \* history: the document of the latest successful
                          \* write on a path whose file nothing touched since

vars == <<fs, handlers, ctor, pc, cur, pending, last, loggerHandlers,
          openSinks, callLog, written>>

(***************************************************************************)
(* Bounds.                                                                 *)
(***************************************************************************)
\* append is offered only while the file's root has fewer children than this
MaxChildren == 2

(***************************************************************************)
(* Python values.                                                          *)
(***************************************************************************)
None == "~None"
Int5 == "~int:5"

IsStr(v) == v \notin {None, Int5}

Element(tag, attrib, text, children) ==
    [tag |-> tag, attrib |-> attrib, text |-> text, children |-> children]

NotAnElement == [py |-> "None"]

IsElement(x) == DOMAIN x = {"tag", "attrib", "text", "children"}

\* the whitespace-only strings of the model
Whitespace == {" ", "\n", "\n  ", "\n    ", "\n      "}

\* `not text or not text.strip()`
IsBlank(text) == text = None \/ text = "" \/ text \in Whitespace

(***************************************************************************)
(* xml.etree.ElementTree as lab6.py uses it.                               *)
(***************************************************************************)
\* "\n" + level * "  "
Indentation(level) ==
    CASE level = 0 -> "\n"
      [] level = 1 -> "\n  "
      [] level = 2 -> "\n    "
      [] OTHER -> "\n      "

RECURSIVE indent_children(_, _)
indent_children(elem, level) ==
    [elem EXCEPT
        !.text = IF IsBlank(elem.text) THEN Indentation(level + 1) ELSE elem.text,
        !.children = [i \in DOMAIN elem.children |->
            IF Len(elem.children[i].children) > 0
            THEN indent_children(elem.children[i], level + 1)
            ELSE elem.children[i]]]

\* ET.indent raises on a tree that is no Element and on non-str text of an
\* element that has children (it calls text.strip())
RECURSIVE IndentRaises(_)
IndentRaises(x) ==
    \/ ~IsElement(x)
    \/ /\ Len(x.children) > 0
       /\ \/ x.text = Int5
          \/ \E i \in DOMAIN x.children : IndentRaises(x.children[i])

\* ET.indent(tree, space="  ")
ET_indent(tree) ==
    IF Len(tree.children) = 0 THEN tree ELSE indent_children(tree, 0)

\* _escape_cdata
escape_cdata(text) ==
    CASE text = "R&D" -> "R&amp;D"
      [] OTHER -> text

\* _escape_attrib
escape_attrib(value) ==
    CASE value = "R&D" -> "R&amp;D"
      [] value = "a\rb" -> "a&#13;b"
      [] OTHER -> value

\* what the parser makes of character data: references are resolved, and a
\* literal carriage return is normalised to a line feed
parse_cdata(cdata) ==
    CASE cdata = "R&amp;D" -> "R&D"
      [] cdata = "a&#13;b" -> "a\rb"
      [] cdata = "a\rb" -> "a\nb"
      [] OTHER -> cdata

\* what the parser makes of an attribute value
parse_attrib(value) ==
    CASE value = "R&amp;D" -> "R&D"
      [] value = "a&#13;b" -> "a\rb"
      [] OTHER -> value

\* _serialize_xml can write the element: every text and attribute value is a
\* str (or the text is None)
RECURSIVE Serializable(_)
Serializable(elem) ==
    /\ elem.text # Int5
    /\ \A i \in DOMAIN elem.attrib : IsStr(elem.attrib[i][2])
    /\ \A i \in DOMAIN elem.children : Serializable(elem.children[i])

\* _serialize_xml: None and "" both give no character data (<tag />)
RECURSIVE serialize(_)
serialize(elem) ==
    [tag |-> elem.tag,
     attrib |-> [i \in DOMAIN elem.attrib |->
                    <<elem.attrib[i][1], escape_attrib(elem.attrib[i][2])>>],
     cdata |-> IF elem.text = None THEN "" ELSE escape_cdata(elem.text),
     children |-> [i \in DOMAIN elem.children |-> serialize(elem.children[i])]]

\* XMLParser / TreeBuilder: an element without character data has text None
RECURSIVE parse_element(_)
parse_element(markup) ==
    Element(markup.tag,
            [i \in DOMAIN markup.attrib |->
                <<markup.attrib[i][1], parse_attrib(markup.attrib[i][2])>>],
            IF markup.cdata = "" THEN None ELSE parse_cdata(markup.cdata),
            [i \in DOMAIN markup.children |-> parse_element(markup.children[i])])

(***************************************************************************)
(* Files.                                                                  *)
(***************************************************************************)
NoContent == [bytes |-> ""]
Garbage == [bytes |-> "not xml"]
Truncated == [bytes |-> "<?xml ...?> and an unfinished element"]

Missing == [kind |-> "missing", perm |-> "rw", content |-> NoContent]
Directory == [kind |-> "dir", perm |-> "rw", content |-> NoContent]
File(perm, content) == [kind |-> "file", perm |-> perm, content |-> content]

WellFormed(content) == DOMAIN content = {"decl", "root"}

\* ET.parse(path): open the file for reading, parse all of it
ET_parse(file) ==
    CASE file.kind = "missing" ->
            [exc |-> "FileNotFoundError", msg |-> "No such file or directory",
             tree |-> NotAnElement]
      [] file.kind = "dir" ->
            [exc |-> "IsADirectoryError", msg |-> "Is a directory",
             tree |-> NotAnElement]
      [] file.perm = "none" ->
            [exc |-> "PermissionError", msg |-> "Permission denied",
             tree |-> NotAnElement]
      [] ~WellFormed(file.content) ->
            [exc |-> "ParseError", msg |-> "syntax error", tree |-> NotAnElement]
      [] OTHER ->
            [exc |-> "none", msg |-> "",
             tree |-> parse_element(file.content.root)]

\* ElementTree.write(path, encoding='utf-8', xml_declaration=True): the file
\* is opened for writing, which creates or empties it, and the declaration
\* and the elements are then written one after the other: an element that
\* cannot be serialized stops the writing after the file was emptied
ET_write(file, tree) ==
    CASE file.kind = "dir" ->
            [exc |-> "IsADirectoryError", msg |-> "Is a directory", file |-> file]
      [] file.kind = "file" /\ file.perm # "rw" ->
            [exc |-> "PermissionError", msg |-> "Permission denied", file |-> file]
      [] ~Serializable(tree) ->
            [exc |-> "TypeError", msg |-> "cannot serialize",
             file |-> File("rw", Truncated)]
      [] OTHER ->
            [exc |-> "none", msg |-> "",
             file |-> File("rw", [decl |-> TRUE, root |-> serialize(tree)])]

(***************************************************************************)
(* What a call does: it returns a value or raises, and leaves `file`.      *)
(***************************************************************************)
Returned(value, file) ==
    [kind |-> "return", value |-> value, exc |-> "none", args |-> <<>>,
     file |-> file]

Raised(exc, args, file) ==
    [kind |-> "raise", value |-> NotAnElement, exc |-> exc, args |-> args,
     file |-> file]

(***************************************************************************)
(* class XMLFileHandler                                                    *)
(***************************************************************************)
\* __init__ without the os.path.exists check
init_unchecked(filepath, files) == [exc |-> "none", made |-> TRUE]

\* __init__: os.path.exists(filepath) is the only check
XMLFileHandler_init(filepath, files) ==
    IF files[filepath].kind = "missing"
    THEN [exc |-> "CustomFileNotFoundError", made |-> FALSE]
    ELSE [exc |-> "none", made |-> TRUE]

\* read without its last clause, `except Exception`
read_without_catch_all(self, file) ==
    LET p == ET_parse(file) IN
    CASE p.exc = "none" -> Returned(p.tree, file)
      [] p.exc = "ParseError" ->
            Raised("FileCorruptedError", <<self, "XML error">>, file)
      [] p.exc = "PermissionError" ->
            Raised("FileCorruptedError", <<self, "Permission denied">>, file)
      [] OTHER -> Raised(p.exc, <<p.msg>>, file)

\* read, undecorated
read(self, file) ==
    LET p == ET_parse(file) IN
    CASE p.exc = "none" -> Returned(p.tree, file)
      [] p.exc = "ParseError" ->
            Raised("FileCorruptedError", <<self, "XML error">>, file)
      [] p.exc = "PermissionError" ->
            Raised("FileCorruptedError", <<self, "Permission denied">>, file)
      [] OTHER -> Raised("FileCorruptedError", <<self, p.msg>>, file)

\* the try body of write and append from ET.indent on, and their except
\* clauses for what it raises
indent_and_write(self, tree, file) ==
    IF IndentRaises(tree)
    THEN Raised("FileCorruptedError", <<self, "TypeError">>, file)
    ELSE LET w == ET_write(file, ET_indent(tree)) IN
         CASE w.exc = "none" -> Returned(NotAnElement, w.file)
           [] w.exc = "PermissionError" ->
                 Raised("FileCorruptedError", <<self, "Permission denied">>, w.file)
           [] OTHER -> Raised("FileCorruptedError", <<self, w.msg>>, w.file)

\* write that adds root's children to those of the file instead of
\* replacing them
write_merging(self, root, file) ==
    LET p == ET_parse(file) IN
    IF p.exc = "none" /\ IsElement(root)
    THEN indent_and_write(self,
             [root EXCEPT !.children = p.tree.children \o @], file)
    ELSE indent_and_write(self, root, file)

\* write, undecorated
write(self, root, file) == indent_and_write(self, root, file)

\* append that inserts the new element before the others
append_in_front(self, new_element, file) ==
    LET p == ET_parse(file) IN
    IF p.exc = "none" /\ IsElement(new_element)
    THEN indent_and_write(self,
             [p.tree EXCEPT !.children = <<new_element>> \o @], file)
    ELSE Raised("FileCorruptedError", <<self, p.msg>>, file)

\* append, undecorated
append(self, new_element, file) ==
    LET p == ET_parse(file) IN
    CASE p.exc = "ParseError" ->
            Raised("FileCorruptedError", <<self, "XML error">>, file)
      [] p.exc = "PermissionError" ->
            Raised("FileCorruptedError", <<self, "Permission denied">>, file)
      [] p.exc # "none" -> Raised("FileCorruptedError", <<self, p.msg>>, file)
      [] ~IsElement(new_element) ->
            Raised("FileCorruptedError", <<self, "append() argument must be Element">>,
                   file)
      [] OTHER ->
            indent_and_write(self,
                [p.tree EXCEPT !.children = Append(@, new_element)], file)

(***************************************************************************)
(* def logged(exception_type, mode)                                        *)
(***************************************************************************)
OpNames == {"read", "write", "append"}

\* @logged(FileCorruptedError, mode=...) on each method
exception_type(op) == "FileCorruptedError"
mode(op) == IF op = "read" THEN "console" ELSE "file"

\* except exception_type: no exception class of lab6.py has a subclass
IsInstance(exc, type) == exc = type

\* Logger.info / Logger.error: every attached handler writes the record
emit(log, hs, level, op, msg) ==
    log \o [i \in 1..Len(hs) |->
               [sink |-> hs[i], level |-> level, name |-> op, msg |-> msg]]

\* list.remove of the first occurrence
RECURSIVE remove(_, _)
remove(hs, h) ==
    IF hs = <<>> THEN <<>>
    ELSE IF Head(hs) = h THEN Tail(hs)
    ELSE <<Head(hs)>> \o remove(Tail(hs), h)

\* wrapper that does not log "Calling <func>"
wrapper_enter_silent(op, hs) ==
    [handlers |-> Append(<<>>, mode(op)), opened |-> 1, log |-> <<>>]

\* wrapper, up to the call of func: the logger's handlers are cleared, a
\* new handler is made and added, "Calling <func>" is logged
\* (making the handler, which for mode 'file' opens file_operations.log, is
\* taken to succeed)
wrapper_enter(op, hs) ==
    LET handler == mode(op)
        added == Append(<<>>, handler)
    IN [handlers |-> added,
        opened |-> 1,
        log |-> emit(<<>>, added, "INFO", op, [text |-> "Calling", args |-> <<>>])]

\* wrapper whose except clause logs and does not re-raise
wrapper_exit_swallowing(op, pend, hs, log) ==
    [handlers |-> remove(hs, mode(op)),
     closed |-> 1,
     log |-> IF pend.kind = "return"
             THEN emit(log, hs, "INFO", op,
                       [text |-> "executed successfully", args |-> <<>>])
             ELSE emit(log, hs, "ERROR", op,
                       [text |-> exception_type(op), args |-> pend.args]),
     outcome |-> [kind |-> "return", value |-> pend.value, exc |-> "none",
                  args |-> <<>>]]

\* wrapper without its finally clause
wrapper_exit_leaking(op, pend, hs, log) ==
    [handlers |-> hs,
     closed |-> 0,
     log |-> IF pend.kind = "return"
             THEN emit(log, hs, "INFO", op,
                       [text |-> "executed successfully", args |-> <<>>])
             ELSE emit(log, hs, "ERROR", op,
                       [text |-> exception_type(op), args |-> pend.args]),
     outcome |-> [kind |-> pend.kind, value |-> pend.value, exc |-> pend.exc,
                  args |-> pend.args]]

\* wrapper, after func: the rest of try, the except clause and finally
wrapper_exit(op, pend, hs, log) ==
    LET handler == mode(op)
        outcome == [kind |-> pend.kind, value |-> pend.value, exc |-> pend.exc,
                    args |-> pend.args]
        log2 == IF pend.kind = "return"
                THEN emit(log, hs, "INFO", op,
                          [text |-> "executed successfully", args |-> <<>>])
                ELSE IF IsInstance(pend.exc, exception_type(op))
                THEN emit(log, hs, "ERROR", op,
                          [text |-> exception_type(op), args |-> pend.args])
                ELSE log
    IN [handlers |-> remove(hs, handler),
        closed |-> 1,
        log |-> log2,
        outcome |-> outcome]

(***************************************************************************)
(* The paths, files and documents the model draws from.                    *)
(***************************************************************************)
Paths == {"demo.xml", "notes.txt"}

\* a recognized XML extension
HasXmlExtension(path) == path = "demo.xml"

Item(id, text) == Element("item", << <<"id", id>> >>, text, <<>>)

\* demo.xml as __main__ creates it: indented, with the declaration
DemoFile ==
    [decl |-> TRUE,
     root |-> [tag |-> "data", attrib |-> <<>>, cdata |-> "\n  ",
               children |-> << [tag |-> "item", attrib |-> << <<"id", "1">> >>,
                                cdata |-> "First Element", children |-> <<>>] >>]]

\* temp.xml as __main__ creates it: <temp />
TempFile ==
    [decl |-> TRUE,
     root |-> [tag |-> "temp", attrib |-> <<>>, cdata |-> "", children |-> <<>>]]

\* a file written by hand on one line: <data><g><h>R&amp;D</h></g></data>
CompactFile ==
    [decl |-> FALSE,
     root |-> [tag |-> "data", attrib |-> <<>>, cdata |-> "",
               children |-> << [tag |-> "g", attrib |-> <<>>, cdata |-> "",
                    children |-> << [tag |-> "h", attrib |-> <<>>,
                                     cdata |-> "R&amp;D", children |-> <<>>] >>] >>]]

\* a file with a character reference: <data><c>a&#13;b</c></data>
CrFile ==
    [decl |-> FALSE,
     root |-> [tag |-> "data", attrib |-> <<>>, cdata |-> "",
               children |-> << [tag |-> "c", attrib |-> <<>>,
                                cdata |-> "a&#13;b", children |-> <<>>] >>]]

SeedFiles ==
    {Missing, Directory} \cup
    {File("rw", c) : c \in {DemoFile, TempFile, CompactFile, CrFile, Garbage}}

\* the documents write is called with
NewDoc == Element("data", <<>>, None, << Item("100", "New Content") >>)
EmptyTextDoc == Element("data", <<>>, " ", << Item("R&D", "") >>)
BadDoc == Element("data", <<>>, None, << Item("100", Int5) >>)
Docs == {NewDoc, EmptyTextDoc, BadDoc, NotAnElement}

\* the elements append is called with
SecondItem == Item("2", "Second Element")
NestedElem == Element("g", <<>>, None, << Element("h", <<>>, "", <<>>) >>)
BadElem == Item(Int5, None)
NewElements == {SecondItem, NestedElem, BadElem, NotAnElement}

(***************************************************************************)
(* State.                                                                  *)
(***************************************************************************)
NoCall == [op |-> "none", self |-> "", arg |-> NotAnElement]
NoOutcome == [kind |-> "none", value |-> NotAnElement, exc |-> "none", args |-> <<>>]
NoPending == [kind |-> "none", value |-> NotAnElement, exc |-> "none", args |-> <<>>,
              file |-> Missing]
NoWrite == [path |-> "", doc |-> NotAnElement]

Init ==
    /\ \E p \in Paths, f \in SeedFiles :
          fs = [q \in Paths |-> IF q = p THEN f ELSE Missing]
    /\ handlers = {}
    /\ ctor = [path |-> "", exc |-> "none", made |-> FALSE]
    /\ pc = "idle"
    /\ cur = NoCall
    /\ pending = NoPending
    /\ last = [op |-> "none", self |-> "", arg |-> NotAnElement, out |-> NoOutcome]
    /\ loggerHandlers = [op \in OpNames |-> <<>>]
    /\ openSinks = 0
    /\ callLog = <<>>
    /\ written = NoWrite

\* the number of children read would find under the root of path's file
RootChildren(file) ==
    IF file.kind = "file" /\ WellFormed(file.content)
    THEN Len(file.content.root.children) ELSE 0

(***************************************************************************)
(* handler = XMLFileHandler(filepath)                                      *)
(***************************************************************************)
Construct(filepath) ==
    /\ pc = "idle"
    /\ LET r == XMLFileHandler_init(filepath, fs) IN
          /\ ctor' = [path |-> filepath, exc |-> r.exc, made |-> r.made]
          /\ handlers' = IF r.made THEN handlers \cup {filepath} ELSE handlers
    /\ UNCHANGED <<fs, pc, cur, pending, last, loggerHandlers, openSinks,
                   callLog, written>>

(***************************************************************************)
(* A call of a decorated method: wrapper up to func, func, wrapper's end.  *)
(***************************************************************************)
Enter(op, self, arg) ==
    /\ pc = "idle"
    /\ self \in handlers
    /\ LET w == wrapper_enter(op, loggerHandlers[op]) IN
          /\ loggerHandlers' = [loggerHandlers EXCEPT ![op] = w.handlers]
          /\ openSinks' = openSinks + w.opened
          /\ callLog' = w.log
    /\ pc' = "called"
    /\ cur' = [op |-> op, self |-> self, arg |-> arg]
    /\ UNCHANGED <<fs, handlers, ctor, pending, last, written>>

CallRead(self) == Enter("read", self, NotAnElement)

CallWrite(self, root) == Enter("write", self, root)

CallAppend(self, new_element) ==
    /\ RootChildren(fs[self]) < MaxChildren
    /\ Enter("append", self, new_element)

Run(op, r) ==
    /\ pc = "called"
    /\ cur.op = op
    /\ pending' = r
    /\ fs' = [fs EXCEPT ![cur.self] = r.file]
    /\ pc' = "ran"
    /\ written' =
          IF op = "write" /\ r.kind = "return"
          THEN [path |-> cur.self, doc |-> cur.arg]
          ELSE IF r.file # fs[cur.self] /\ written.path = cur.self
          THEN NoWrite
          ELSE written
    /\ UNCHANGED <<handlers, ctor, cur, last, loggerHandlers, openSinks, callLog>>

RunRead == Run("read", read(cur.self, fs[cur.self]))

RunWrite == Run("write", write(cur.self, cur.arg, fs[cur.self]))

RunAppend == Run("append", append(cur.self, cur.arg, fs[cur.self]))

Finish ==
    /\ pc = "ran"
    /\ LET w == wrapper_exit(cur.op, pending, loggerHandlers[cur.op], callLog) IN
          /\ loggerHandlers' = [loggerHandlers EXCEPT ![cur.op] = w.handlers]
          /\ openSinks' = openSinks - w.closed
          /\ callLog' = w.log
          /\ last' = [op |-> cur.op, self |-> cur.self, arg |-> cur.arg,
                      out |-> w.outcome]
    /\ pc' = "idle"
    /\ cur' = NoCall
    /\ pending' = NoPending
    /\ UNCHANGED <<fs, handlers, ctor, written>>

(***************************************************************************)
(* What happens to the files between the calls, from outside the program.  *)
(***************************************************************************)
Touch(path, file) ==
    /\ pc = "idle"
    /\ fs[path].kind # "missing"
    /\ fs[path] # file
    /\ fs' = [fs EXCEPT ![path] = file]
    /\ written' = IF written.path = path THEN NoWrite ELSE written
    /\ UNCHANGED <<handlers, ctor, pc, cur, pending, last, loggerHandlers,
                   openSinks, callLog>>

EnvRemove(path) == Touch(path, Missing)

EnvCorrupt(path) ==
    /\ fs[path].kind = "file"
    /\ Touch(path, [fs[path] EXCEPT !.content = Garbage])

EnvChmod(path, perm) ==
    /\ fs[path].kind = "file"
    /\ Touch(path, [fs[path] EXCEPT !.perm = perm])

Next ==
    \/ \E p \in Paths : Construct(p)
    \/ \E h \in handlers : CallRead(h)
    \/ \E h \in handlers, d \in Docs : CallWrite(h, d)
    \/ \E h \in handlers, e \in NewElements : CallAppend(h, e)
    \/ RunRead
    \/ RunWrite
    \/ RunAppend
    \/ Finish
    \/ \E p \in Paths : EnvRemove(p)
    \/ \E p \in Paths : EnvCorrupt(p)
    \/ \E p \in Paths, m \in {"rw", "ro", "none"} : EnvChmod(p, m)

Spec == Init /\ [][Next]_vars

(***************************************************************************)
(* The claims.                                                             *)
(***************************************************************************)
\* text with its whitespace characters removed.  The strings of the model
\* that are not listed differ in other characters and stand for themselves.
NoWS(text) ==
    CASE IsBlank(text) -> ""
      [] text \in {"a\rb", "a\nb"} -> "ab"
      [] OTHER -> text

\* the same tags, attributes and children in the same order, and the same
\* text once whitespace is left out
RECURSIVE SameModuloWhitespace(_, _)
SameModuloWhitespace(a, b) ==
    /\ IsElement(a) /\ IsElement(b)
    /\ a.tag = b.tag
    /\ a.attrib = b.attrib
    /\ NoWS(a.text) = NoWS(b.text)
    /\ Len(a.children) = Len(b.children)
    /\ \A i \in DOMAIN a.children :
          SameModuloWhitespace(a.children[i], b.children[i])

\* a read that returned, right after a successful write on the same path
ReadAfterWrite ==
    /\ pc = "idle"
    /\ last.op = "read"
    /\ last.out.kind = "return"
    /\ written.path = last.self

\* C1 as stated: read after a successful write(d) returns a root equal to d
\* exactly, in tags, attributes, text and child order.
C1_RoundTripExact == ReadAfterWrite => last.out.value = written.doc

\* C1 as amended: read after a successful write(d) returns a root with the
\* tags, attributes and children of d, in d's order and no others, and with
\* d's text up to whitespace.
C1_RoundTripModuloWhitespace ==
    ReadAfterWrite => SameModuloWhitespace(last.out.value, written.doc)

\* a file with other content was overwritten with NewDoc and read back
C1_Witness ==
    /\ ReadAfterWrite
    /\ written.doc = NewDoc
    /\ Len(last.out.value.children) = 1
    /\ last.out.value.text = "\n  "

\* the step in which append's body runs and returns
AppendReturns == pc = "called" /\ cur.op = "append" /\ pending'.kind = "return"

\* the root read would return for the file the call in progress is bound to
RootBefore == parse_element(fs[cur.self].content.root)
RootAfter == parse_element(fs'[cur.self].content.root)

\* C2 as stated: a successful append(e) on a root with N children leaves N+1
\* children, the first N unchanged in tag, attributes and text and in their
\* order, with e as the last one.
C2_AppendKeepsChildrenExact ==
    [][AppendReturns =>
        /\ Len(RootAfter.children) = Len(RootBefore.children) + 1
        /\ \A i \in DOMAIN RootBefore.children :
              /\ RootAfter.children[i].tag = RootBefore.children[i].tag
              /\ RootAfter.children[i].attrib = RootBefore.children[i].attrib
              /\ RootAfter.children[i].text = RootBefore.children[i].text
        /\ LET e == RootAfter.children[Len(RootAfter.children)] IN
              e.tag = cur.arg.tag /\ e.attrib = cur.arg.attrib]_vars

\* C2 as amended: a successful append(e) on a root with N children leaves N+1
\* children, the first N unchanged in tag, attributes and order and unchanged
\* in text up to whitespace, with e (up to whitespace in text) as the last.
C2_AppendKeepsChildrenModuloWhitespace ==
    [][AppendReturns =>
        /\ Len(RootAfter.children) = Len(RootBefore.children) + 1
        /\ \A i \in DOMAIN RootBefore.children :
              SameModuloWhitespace(RootAfter.children[i], RootBefore.children[i])
        /\ SameModuloWhitespace(RootAfter.children[Len(RootAfter.children)],
                                cur.arg)]_vars

\* append has returned on a file that had a child: it now has two
C2_Witness ==
    /\ pc = "ran"
    /\ cur.op = "append"
    /\ pending.kind = "return"
    /\ RootChildren(fs[cur.self]) = 2
    /\ cur.arg = SecondItem

\* the step that is a construction on filepath
Constructing == ctor' # ctor

\* C3: a construction on a path without a recognized XML extension fails
\* with InvalidFileType, whether or not the path exists, and makes no
\* accessor.
C3_NoXmlExtensionRaisesInvalidFileType ==
    (ctor.path # "" /\ ~HasXmlExtension(ctor.path))
        => (ctor.exc = "InvalidFileType" /\ ~ctor.made)

\* C4: a construction on a path that is a directory fails with FileCorrupted
\* and makes no accessor.
C4_DirectoryRaisesFileCorrupted ==
    [][(Constructing /\ HasXmlExtension(ctor'.path) /\ fs[ctor'.path].kind = "dir")
        => (ctor'.exc = "FileCorruptedError" /\ ~ctor'.made
            /\ handlers' = handlers)]_vars

\* C5: a construction on a path with an XML extension that does not exist
\* fails with CustomFileNotFoundError, makes no accessor and logs nothing.
C5_MissingPathRaisesFileNotFound ==
    [][(Constructing /\ HasXmlExtension(ctor'.path)
            /\ fs[ctor'.path].kind = "missing")
        => /\ ctor'.exc = "CustomFileNotFoundError"
           /\ ~ctor'.made
           /\ handlers' = handlers
           /\ callLog' = callLog
           /\ loggerHandlers' = loggerHandlers
           /\ openSinks' = openSinks]_vars

\* the construction on the missing demo.xml has failed
C5_Witness ==
    /\ ctor.path = "demo.xml"
    /\ ctor.exc = "CustomFileNotFoundError"
    /\ fs["demo.xml"].kind = "missing"
    /\ "demo.xml" \notin handlers

\* the lines of log that have the level
Lines(log, level) == {i \in DOMAIN log : log[i].level = level}

\* C6: when func raised an error of the watched type, wrapper logs one error
\* record with the type's name and the error's message, logs no success
\* record, and raises the same error to its caller; whatever func raised,
\* the call does not return normally.
C6_WatchedErrorLoggedOnceAndReraised ==
    [][(pc = "ran" /\ pending.kind = "raise")
        => /\ last'.out.kind = "raise"
           /\ last'.out.exc = pending.exc
           /\ last'.out.args = pending.args
           /\ \A i \in DOMAIN callLog' : callLog'[i].msg.text # "executed successfully"
           /\ pending.exc = exception_type(cur.op)
                 => /\ Cardinality(Lines(callLog', "ERROR")) = 1
                    /\ \A i \in Lines(callLog', "ERROR") :
                          callLog'[i].msg = [text |-> pending.exc,
                                             args |-> pending.args]]_vars

\* a call has raised FileCorruptedError to its caller and logged it
C6_Witness ==
    /\ pc = "idle"
    /\ last.out.kind = "raise"
    /\ last.out.exc = "FileCorruptedError"
    /\ Cardinality(Lines(callLog, "ERROR")) = 1

\* C7: between calls no logger has a handler attached and no sink is open;
\* during a call the logger of the operation has one handler, the others
\* none, and one sink is open.
C7_SinkReleased ==
    /\ openSinks = (IF pc = "idle" THEN 0 ELSE 1)
    /\ \A op \in OpNames :
          Len(loggerHandlers[op]) = (IF pc # "idle" /\ cur.op = op THEN 1 ELSE 0)

\* a second call of the same operation is in progress, after one that raised
C7_Witness ==
    /\ pc = "called"
    /\ cur.op = last.op
    /\ last.out.kind = "raise"
    /\ Len(loggerHandlers[cur.op]) = 1
    /\ openSinks = 1

\* a call has finished and no other has started
CallFinished == pc = "idle" /\ last.op # "none"

\* C8 as stated: a call that returned or raised the watched error has
\* written exactly one log record.
C8_ExactlyOneRecord == CallFinished => Len(callLog) = 1

\* C8 as amended: a call that returned or raised the watched error has
\* written exactly two log records: "Calling <func>", then one record of the
\* outcome, of success if it returned and of the error if it raised.
C8_StartRecordAndOneOutcomeRecord ==
    CallFinished =>
        /\ Len(callLog) = 2
        /\ callLog[1].level = "INFO" /\ callLog[1].msg.text = "Calling"
        /\ callLog[1].name = last.op /\ callLog[2].name = last.op
        /\ last.out.kind = "return"
              => /\ callLog[2].level = "INFO"
                 /\ callLog[2].msg.text = "executed successfully"
        /\ last.out.kind = "raise"
              => /\ callLog[2].level = "ERROR"
                 /\ callLog[2].msg.text = last.out.exc

\* a call that raised has finished with its two records
C8_Witness ==
    /\ CallFinished
    /\ last.out.kind = "raise"
    /\ Len(callLog) = 2

C10_OnlySuccessfulWriteOrAppendChangesFile ==
    [][pc # "idle" =>
        /\ fs' # fs => (cur.op \in {"write", "append"} /\ pc = "called"
                        /\ pending'.kind = "return")
        /\ cur.op = "read" => fs' = fs
        /\ (cur.op = "append" /\ ET_parse(fs[cur.self]).exc # "none") => fs' = fs
        /\ handlers' = handlers
        /\ pc' # "idle" => cur'.self = cur.self]_vars

====
